---- MODULE Spec2Model ----
(***************************************************************************)
(* Model of the comparison engine of document-compare-app:                 *)
(*   core/helpers.py      normalize_whitespace, is_digits_only,            *)
(*                        word_diff_pairs, LineDiff                        *)
(*   core/comparators.py  compute_diffs, compute_diffs_sequential          *)
(*   core/report.py       _words_to_html                                   *)
(* A Python str is a sequence of characters; a character is a one-element  *)
(* token (a TLA+ string).  Every operation is a pure function, so each     *)
(* specification draws the arguments in Init and one action per function   *)
(* applies it.                                                             *)
(***************************************************************************)
EXTENDS Integers, Sequences, FiniteSets, TLC

VARIABLES
    pc,              \* position of the caller: which function has returned
    s,               \* argument of normalize_whitespace / is_digits_only
    once,            \* normalize_whitespace(s)
    twice,           \* normalize_whitespace(normalize_whitespace(s))
    is_digits,       \* is_digits_only(s)
    text1,           \* word_diff_pairs: side to annotate
    text2,           \* word_diff_pairs: counterpart
    result,          \* word_diff_pairs: list of (word, is_different)
    text,            \* _words_to_html: side to annotate
    other,           \* _words_to_html: counterpart
    html,            \* _words_to_html: rendered parts
    original,        \* compute_diffs_sequential: original lines
    corrige,         \* compute_diffs_sequential: revised lines
    original_lines,  \* compute_diffs: slide_no -> original lines
    corrige_lines,   \* compute_diffs: slide_no -> revised lines
    diffs            \* list of LineDiff returned by either matcher

vars == <<pc, s, once, twice, is_digits, text1, text2, result, text, other,
          html, original, corrige, original_lines, corrige_lines, diffs>>

(***************************************************************************)
(* Bounds of the model.                                                    *)
(***************************************************************************)
MaxStrLen == 4      \* characters in an argument of normalize_whitespace
MaxDigitsLen == 3   \* characters in an argument of is_digits_only
MaxTextLen == 4     \* characters in an argument of word_diff_pairs
MaxWords == 3       \* words in the counterpart given to _words_to_html
MaxLines == 3       \* lines in an argument of compute_diffs_sequential
MaxSlideLines == 2  \* lines of all slides of a deck given to compute_diffs

(***************************************************************************)
(* Characters.                                                             *)
(***************************************************************************)
SP == " "
TAB == "\t"
LF == "\n"
CR == "\r"
NBSP == "nbsp"          \* U+00A0
ACUTE == "acute"        \* U+0301 combining acute accent
EACUTE == "e_acute"     \* U+00E9, the canonical composition of e + U+0301
SUP2 == "sup2"          \* U+00B2 superscript two

\* str.isspace / the regex class \s, on the characters of the model
IsSpace(c) == c \in {SP, TAB, LF, CR, NBSP}

\* all strings over an alphabet of at most n characters
Strings(alphabet, n) == UNION {[1..k -> alphabet] : k \in 0..n}

\* s[from:] with a 1-based start index
From(str, from) == SubSeq(str, from, Len(str))

(***************************************************************************)
(* core/helpers.py: normalize_whitespace                                   *)
(***************************************************************************)
\* unicodedata.normalize("NFC", s): the only composable pair of the model's
\* alphabet is e + U+0301
RECURSIVE NFC(_)
NFC(str) ==
    IF str = <<>> THEN <<>>
    ELSE IF Len(str) >= 2 /\ str[1] = "e" /\ str[2] = ACUTE
         THEN <<EACUTE>> \o NFC(From(str, 3))
         ELSE <<str[1]>> \o NFC(Tail(str))

\* s.replace("\u00A0", " ")
ReplaceNbsp(str) == [i \in 1..Len(str) |-> IF str[i] = NBSP THEN SP ELSE str[i]]

\* index of the last character of the maximal run of characters satisfying
\* the class, starting at p (p - 1 when str[p] is not in the class)
RECURSIVE RunEnd(_, _, _)
RunEnd(str, p, class) ==
    IF p <= Len(str) /\ str[p] \in class THEN RunEnd(str, p + 1, class) ELSE p - 1

Blank == {SP, TAB}
Space == {SP, TAB, LF, CR, NBSP}

\* re.sub(r"[ \t]+", " ", s)
RECURSIVE CollapseBlanks(_)
CollapseBlanks(str) ==
    IF str = <<>> THEN <<>>
    ELSE IF str[1] \in Blank
         THEN <<SP>> \o CollapseBlanks(From(str, RunEnd(str, 1, Blank) + 1))
         ELSE <<str[1]>> \o CollapseBlanks(Tail(str))

\* re.sub(r"\s+\n", "\n", s): the greedy \s+ backtracks to the last newline
\* of the whitespace run that starts at the match position
RECURSIVE StripBeforeNewline(_)
StripBeforeNewline(str) ==
    IF str = <<>> THEN <<>>
    ELSE LET e == RunEnd(str, 1, Space)
             lfs == {q \in 2..e : str[q] = LF}
         IN IF lfs # {}
            THEN LET last == CHOOSE q \in lfs : \A r \in lfs : r <= q
                 IN <<LF>> \o StripBeforeNewline(From(str, last + 1))
            ELSE <<str[1]>> \o StripBeforeNewline(Tail(str))

\* re.sub(r"\n\s+", "\n", s)
RECURSIVE StripAfterNewline(_)
StripAfterNewline(str) ==
    IF str = <<>> THEN <<>>
    ELSE IF str[1] = LF /\ Len(str) >= 2 /\ str[2] \in Space
         THEN <<LF>> \o StripAfterNewline(From(str, RunEnd(str, 2, Space) + 1))
         ELSE <<str[1]>> \o StripAfterNewline(Tail(str))

\* str.strip()
RECURSIVE LStrip(_)
LStrip(str) == IF str # <<>> /\ IsSpace(str[1]) THEN LStrip(Tail(str)) ELSE str

RECURSIVE RStrip(_)
RStrip(str) ==
    IF str # <<>> /\ IsSpace(str[Len(str)])
    THEN RStrip(SubSeq(str, 1, Len(str) - 1)) ELSE str

Strip(str) == RStrip(LStrip(str))

\* the same steps with the non-breaking spaces replaced after the collapse
normalize_nbsp_late(str) ==
    Strip(StripAfterNewline(StripBeforeNewline(ReplaceNbsp(CollapseBlanks(NFC(str))))))

normalize_whitespace(str) ==
    Strip(StripAfterNewline(StripBeforeNewline(CollapseBlanks(ReplaceNbsp(NFC(str))))))

(***************************************************************************)
(* core/helpers.py: is_digits_only                                         *)
(***************************************************************************)
Punct == {".", ",", ":", ";", "(", ")", "[", "]", "-"}

\* the characters 0-9 (Unicode decimal digits of the model's alphabet)
IsDecimal(c) == c \in {"0", "1", "2", "3", "4", "5", "6", "7", "8", "9"}

\* the characters str.isdigit accepts: decimal digits and the characters of
\* numeric type Digit, such as the superscript digits
IsDigitChar(c) == IsDecimal(c) \/ c = SUP2

\* str.isdigit(): at least one character and all of them digits
IsDigit(str) == str # <<>> /\ \A i \in 1..Len(str) : IsDigitChar(str[i])

\* re.sub(r"[\s\.,:;()\[\]\-]+", "", s)
RECURSIVE RemoveRuns(_, _)
RemoveRuns(str, class) ==
    IF str = <<>> THEN <<>>
    ELSE IF str[1] \in class
         THEN RemoveRuns(From(str, RunEnd(str, 1, class) + 1), class)
         ELSE <<str[1]>> \o RemoveRuns(Tail(str), class)

\* the same function with the hyphen missing from the character class
is_digits_only_no_hyphen(str) ==
    LET st == Strip(str)
    IN IF st = <<>> THEN FALSE
       ELSE IsDigit(RemoveRuns(st, Space \cup (Punct \ {"-"})))

is_digits_only(str) ==
    LET st == Strip(str)
    IN IF st = <<>> THEN FALSE
       ELSE IsDigit(RemoveRuns(st, Space \cup Punct))

(***************************************************************************)
(* core/helpers.py: word_diff_pairs                                        *)
(***************************************************************************)
\* str.split(): the maximal runs of non-whitespace characters
RECURSIVE Split(_)
Split(str) ==
    LET st == LStrip(str)
    IN IF st = <<>> THEN <<>>
       ELSE LET nonspace == {c \in {st[i] : i \in 1..Len(st)} : ~IsSpace(c)}
                e == RunEnd(st, 1, nonspace)
            IN <<SubSeq(st, 1, e)>> \o Split(From(st, e + 1))

Min(x, y) == IF x <= y THEN x ELSE y

\* the same function flagging the surplus words of text1 as equal
word_diff_pairs_surplus_equal(t1, t2) ==
    LET words1 == Split(t1)
        words2 == Split(t2)
        n == Min(Len(words1), Len(words2))
        zipped == [i \in 1..n |-> <<words1[i], words1[i] # words2[i]>>]
    IN IF Len(words1) > Len(words2)
       THEN zipped \o [i \in 1..(Len(words1) - n) |-> <<words1[n + i], FALSE>>]
       ELSE IF Len(words2) > Len(words1)
       THEN zipped \o [i \in 1..(Len(words2) - n) |-> <<words2[n + i], TRUE>>]
       ELSE zipped

word_diff_pairs(t1, t2) ==
    LET words1 == Split(t1)
        words2 == Split(t2)
        n == Min(Len(words1), Len(words2))
        \* for w1, w2 in zip(words1, words2)
        zipped == [i \in 1..n |-> <<words1[i], words1[i] # words2[i]>>]
    IN IF Len(words1) > Len(words2)
       THEN zipped \o [i \in 1..(Len(words1) - n) |-> <<words1[n + i], TRUE>>]
       ELSE IF Len(words2) > Len(words1)
       THEN zipped \o [i \in 1..(Len(words2) - n) |-> <<words2[n + i], TRUE>>]
       ELSE zipped

(***************************************************************************)
(* difflib.SequenceMatcher(None, a, b), as both callers construct it: no   *)
(* junk predicate, autojunk left at its default.  Indices are Python's:    *)
(* 0-based, ranges half-open.                                              *)
(***************************************************************************)
At(seq, i) == seq[i + 1]

\* seq[lo:hi]
Slice(seq, lo, hi) == SubSeq(seq, lo + 1, hi)

Max(x, y) == IF x >= y THEN x ELSE y

\* __chain_b: with autojunk, the elements of b that occur more than
\* len(b) // 100 + 1 times are dropped from b2j when len(b) >= 200
Popular(b) ==
    IF Len(b) >= 200
    THEN {e \in {b[i] : i \in 1..Len(b)} :
            Cardinality({i \in 1..Len(b) : b[i] = e}) > (Len(b) \div 100) + 1}
    ELSE {}

\* find_longest_match, main loop: k = newj2len[j] = j2len.get(j - 1, 0) + 1,
\* the length of the run of equal b2j elements that ends at a[i], b[j]
RECURSIVE RunLen(_, _, _, _, _, _)
RunLen(a, b, alo, blo, i, j) ==
    IF At(a, i) = At(b, j) /\ At(b, j) \notin Popular(b)
    THEN 1 + (IF i > alo /\ j > blo THEN RunLen(a, b, alo, blo, i - 1, j - 1) ELSE 0)
    ELSE 0

\* first extension loop of find_longest_match (towards the start)
RECURSIVE ExtendLeft(_, _, _, _, _)
ExtendLeft(a, b, alo, blo, m) ==
    IF m[1] > alo /\ m[2] > blo /\ At(a, m[1] - 1) = At(b, m[2] - 1)
    THEN ExtendLeft(a, b, alo, blo, <<m[1] - 1, m[2] - 1, m[3] + 1>>)
    ELSE m

\* second extension loop of find_longest_match (towards the end)
RECURSIVE ExtendRight(_, _, _, _, _)
ExtendRight(a, b, ahi, bhi, m) ==
    IF m[1] + m[3] < ahi /\ m[2] + m[3] < bhi
       /\ At(a, m[1] + m[3]) = At(b, m[2] + m[3])
    THEN ExtendRight(a, b, ahi, bhi, <<m[1], m[2], m[3] + 1>>)
    ELSE m

\* find_longest_match(alo, ahi, blo, bhi): the update "if k > bestsize" in a
\* scan by ascending i, then ascending j, keeps the longest run, and among
\* the longest the one found first
find_longest_match(a, b, alo, ahi, blo, bhi) ==
    LET runs == {<<RunLen(a, b, alo, blo, i, j), i, j>> :
                    i \in alo..(ahi - 1), j \in blo..(bhi - 1)}
        first(r, q) == r[2] < q[2] \/ (r[2] = q[2] /\ r[3] <= q[3])
        e == CHOOSE r \in runs :
                \A q \in runs : r[1] > q[1] \/ (r[1] = q[1] /\ first(r, q))
        best == IF runs = {} \/ e[1] = 0 THEN <<alo, blo, 0>>
                ELSE <<e[2] - e[1] + 1, e[3] - e[1] + 1, e[1]>>
    IN ExtendRight(a, b, ahi, bhi, ExtendLeft(a, b, alo, blo, best))

\* get_matching_blocks, the queue loop followed by matching_blocks.sort():
\* the block of a range, between the blocks of the ranges left and right of it
RECURSIVE MatchingBlocksIn(_, _, _, _, _, _)
MatchingBlocksIn(a, b, alo, ahi, blo, bhi) ==
    LET x == find_longest_match(a, b, alo, ahi, blo, bhi)
        i == x[1]
        j == x[2]
        k == x[3]
    IN IF k = 0 THEN <<>>
       ELSE (IF alo < i /\ blo < j
             THEN MatchingBlocksIn(a, b, alo, i, blo, j) ELSE <<>>)
            \o <<x>>
            \o (IF i + k < ahi /\ j + k < bhi
                THEN MatchingBlocksIn(a, b, i + k, ahi, j + k, bhi) ELSE <<>>)

\* get_matching_blocks, the loop that collapses adjacent blocks; cur is
\* (i1, j1, k1)
RECURSIVE CollapseAdjacent(_, _)
CollapseAdjacent(blocks, cur) ==
    IF blocks = <<>> THEN (IF cur[3] # 0 THEN <<cur>> ELSE <<>>)
    ELSE LET nxt == Head(blocks)
         IN IF cur[1] + cur[3] = nxt[1] /\ cur[2] + cur[3] = nxt[2]
            THEN CollapseAdjacent(Tail(blocks), <<cur[1], cur[2], cur[3] + nxt[3]>>)
            ELSE (IF cur[3] # 0 THEN <<cur>> ELSE <<>>)
                 \o CollapseAdjacent(Tail(blocks), nxt)

get_matching_blocks(a, b) ==
    CollapseAdjacent(MatchingBlocksIn(a, b, 0, Len(a), 0, Len(b)), <<0, 0, 0>>)
        \o <<(<<Len(a), Len(b), 0>>)>>

\* get_opcodes, the loop over the matching blocks; i, j are the ends of the
\* previous block.  An opcode is (tag, i1, i2, j1, j2)
RECURSIVE OpcodesFrom(_, _, _)
OpcodesFrom(blocks, i, j) ==
    IF blocks = <<>> THEN <<>>
    ELSE LET ai == Head(blocks)[1]
             bj == Head(blocks)[2]
             size == Head(blocks)[3]
             tag == IF i < ai /\ j < bj THEN "replace"
                    ELSE IF i < ai THEN "delete"
                    ELSE IF j < bj THEN "insert"
                    ELSE ""
         IN (IF tag # "" THEN <<(<<tag, i, ai, j, bj>>)>> ELSE <<>>)
            \o (IF size # 0 THEN <<(<<"equal", ai, ai + size, bj, bj + size>>)>>
                ELSE <<>>)
            \o OpcodesFrom(Tail(blocks), ai + size, bj + size)

get_opcodes(a, b) == OpcodesFrom(get_matching_blocks(a, b), 0, 0)

(***************************************************************************)
(* core/helpers.py: LineDiff; core/comparators.py                          *)
(***************************************************************************)
LineDiff(slide_no, orig, corr) ==
    [slide_no |-> slide_no, original |-> orig, corrige |-> corr]

\* [normalize_whitespace(x) for x in lines]
Norms(lines) == [i \in 1..Len(lines) |-> normalize_whitespace(lines[i])]

\* zip_longest(xs, ys, fillvalue=""), as a list of pairs
ZipLongest(xs, ys) ==
    [k \in 1..Max(Len(xs), Len(ys)) |->
        <<IF k <= Len(xs) THEN xs[k] ELSE <<>>,
          IF k <= Len(ys) THEN ys[k] ELSE <<>>>>]

\* the LineDiffs one opcode contributes to compute_diffs_sequential
OpcodeDiffs(op, orig, corr) ==
    LET tag == op[1]
        os == Slice(orig, op[2], op[3])
        cs == Slice(corr, op[4], op[5])
    IN IF tag = "replace"
       THEN LET z == ZipLongest(os, cs)
            IN [k \in 1..Len(z) |-> LineDiff(0, z[k][1], z[k][2])]
       ELSE IF tag = "delete"
       THEN [k \in 1..Len(os) |-> LineDiff(0, os[k], <<>>)]
       ELSE IF tag = "insert"
       THEN [k \in 1..Len(cs) |-> LineDiff(0, <<>>, cs[k])]
       ELSE <<>>

\* corr_map: normalised revised line -> list of its indices (0-based, as
\* enumerate yields them), ascending
CorrMap(corr_norms) ==
    [val \in {corr_norms[i] : i \in 1..Len(corr_norms)} |->
        SelectSeq([i \in 1..Len(corr_norms) |-> i - 1],
                  LAMBDA idx : At(corr_norms, idx) = val)]

\* while lst and lst[0] in matched_corr: lst.pop(0)
RECURSIVE PopMatched(_, _)
PopMatched(lst, matched_corr) ==
    IF lst # <<>> /\ Head(lst) \in matched_corr
    THEN PopMatched(Tail(lst), matched_corr) ELSE lst

\* one iteration of the first pass consuming the last available index
MatchStep_rightmost(orig_norms, i, st) ==
    LET val == At(orig_norms, i)
    IN IF val \in DOMAIN st.corr_map
       THEN LET lst == PopMatched(st.corr_map[val], st.matched_corr)
            IN IF lst # <<>>
               THEN [corr_map |-> [st.corr_map EXCEPT
                                      ![val] = SubSeq(lst, 1, Len(lst) - 1)],
                     matched_corr |-> st.matched_corr \cup {lst[Len(lst)]},
                     matched_orig |-> [st.matched_orig EXCEPT ![i + 1] = TRUE]]
               ELSE [st EXCEPT !.corr_map[val] = lst]
       ELSE st

\* one iteration of the first pass that leaves the consumed index available
MatchStep_reuse(orig_norms, i, st) ==
    LET val == At(orig_norms, i)
    IN IF val \in DOMAIN st.corr_map /\ st.corr_map[val] # <<>>
       THEN [corr_map |-> st.corr_map,
             matched_corr |-> st.matched_corr \cup {Head(st.corr_map[val])},
             matched_orig |-> [st.matched_orig EXCEPT ![i + 1] = TRUE]]
       ELSE st

\* one iteration of the first pass, for original index i; st holds corr_map,
\* matched_corr and matched_orig
MatchStep(orig_norms, i, st) ==
    LET val == At(orig_norms, i)
    IN IF val \in DOMAIN st.corr_map
       THEN LET lst == PopMatched(st.corr_map[val], st.matched_corr)
            IN IF lst # <<>>
               THEN [corr_map |-> [st.corr_map EXCEPT ![val] = Tail(lst)],
                     matched_corr |-> st.matched_corr \cup {Head(lst)},
                     matched_orig |-> [st.matched_orig EXCEPT ![i + 1] = TRUE]]
               ELSE [st EXCEPT !.corr_map[val] = lst]
       ELSE st

\* the first pass from original index i on
RECURSIVE MatchFrom(_, _, _)
MatchFrom(orig_norms, i, st) ==
    IF i >= Len(orig_norms) THEN st
    ELSE MatchFrom(orig_norms, i + 1, MatchStep(orig_norms, i, st))

\* the first pass: match identical content regardless of position
MatchPass(orig_norms, corr_norms) ==
    MatchFrom(orig_norms, 0,
              [corr_map |-> CorrMap(corr_norms),
               matched_corr |-> {},
               matched_orig |-> [i \in 1..Len(orig_norms) |-> FALSE]])

\* [seq[i] for i in range(len(seq)) if i not in dropped], from index i on
RECURSIVE Keep(_, _, _)
Keep(seq, i, dropped) ==
    IF i >= Len(seq) THEN <<>>
    ELSE (IF i \notin dropped THEN <<At(seq, i)>> ELSE <<>>)
         \o Keep(seq, i + 1, dropped)

\* the indices i with matched_orig[i] set
MatchedOrig(m) == {i \in 0..(Len(m.matched_orig) - 1) : At(m.matched_orig, i)}

\* the diffs.append loop over zip_longest(unmatched_o, unmatched_c)
ResidualDiffs(slide_no, unmatched_o, unmatched_c) ==
    LET z == ZipLongest(unmatched_o, unmatched_c)
        differ == SelectSeq(z, LAMBDA ab :
                     normalize_whitespace(ab[1]) # normalize_whitespace(ab[2]))
    IN [k \in 1..Len(differ) |-> LineDiff(slide_no, differ[k][1], differ[k][2])]

\* the body of the loop over the slides with every line compared to the line
\* at the same position, without the first pass
SlideDiffs_positional(slide_no, o, c) == ResidualDiffs(slide_no, o, c)

\* the body of the loop over the slides reporting the normalised lines
SlideDiffs_normalised(slide_no, o, c) ==
    LET m == MatchPass(Norms(o), Norms(c))
    IN ResidualDiffs(slide_no,
                     Keep(Norms(o), 0, MatchedOrig(m)),
                     Keep(Norms(c), 0, m.matched_corr))

\* the body of the loop over the slides
SlideDiffs(slide_no, o, c) ==
    LET m == MatchPass(Norms(o), Norms(c))
        unmatched_o == Keep(o, 0, MatchedOrig(m))
        unmatched_c == Keep(c, 0, m.matched_corr)
    IN ResidualDiffs(slide_no, unmatched_o, unmatched_c)

\* dict.get(slide_no, [])
Get(lines, slide_no) == IF slide_no \in DOMAIN lines THEN lines[slide_no] ELSE <<>>

\* the loop over the slides taking the keys in descending order
RECURSIVE AllSlideDiffs_descending(_, _, _)
AllSlideDiffs_descending(all_slides, olines, clines) ==
    IF all_slides = {} THEN <<>>
    ELSE LET slide_no == CHOOSE k \in all_slides : \A l \in all_slides : k >= l
         IN SlideDiffs(slide_no, Get(olines, slide_no), Get(clines, slide_no))
            \o AllSlideDiffs_descending(all_slides \ {slide_no}, olines, clines)

\* for slide_no in sorted(all_slides)
RECURSIVE AllSlideDiffs(_, _, _)
AllSlideDiffs(all_slides, olines, clines) ==
    IF all_slides = {} THEN <<>>
    ELSE LET slide_no == CHOOSE k \in all_slides : \A l \in all_slides : k <= l
         IN SlideDiffs(slide_no, Get(olines, slide_no), Get(clines, slide_no))
            \o AllSlideDiffs(all_slides \ {slide_no}, olines, clines)

compute_diffs(olines, clines) ==
    SelectSeq(AllSlideDiffs((DOMAIN olines) \cup (DOMAIN clines), olines, clines),
              LAMBDA d : Strip(d.original) # <<>> \/ Strip(d.corrige) # <<>>)

RECURSIVE SequentialDiffs(_, _, _)
SequentialDiffs(ops, orig, corr) ==
    IF ops = <<>> THEN <<>>
    ELSE OpcodeDiffs(Head(ops), orig, corr) \o SequentialDiffs(Tail(ops), orig, corr)

\* the same function aligning the lines as given, not their normal forms
compute_diffs_sequential_raw(orig, corr) ==
    SequentialDiffs(get_opcodes(orig, corr), orig, corr)

\* the flat lists handed to the order-independent matcher as one section 0
compute_diffs_sequential_unordered(orig, corr) ==
    compute_diffs([k \in {0} |-> orig], [k \in {0} |-> corr])

\* the same function without the branch for the "insert" opcodes
compute_diffs_sequential_no_insert(orig, corr) ==
    SequentialDiffs(
        SelectSeq(get_opcodes(Norms(orig), Norms(corr)), LAMBDA op : op[1] # "insert"),
        orig, corr)

compute_diffs_sequential(orig, corr) ==
    SequentialDiffs(get_opcodes(Norms(orig), Norms(corr)), orig, corr)

(***************************************************************************)
(* core/report.py: _words_to_html                                          *)
(***************************************************************************)
\* different_indices: the indices of words_text inside a non-equal opcode
DifferentIndices(words_text, words_other) ==
    LET ops == get_opcodes(words_other, words_text)
    IN UNION {IF ops[n][1] # "equal" THEN ops[n][4]..(ops[n][5] - 1) ELSE {}
              : n \in 1..Len(ops)}

\* the returned markup: either the placeholder '<i>(empty)</i>', or the
\* parts joined by " ", a part being a word or the word wrapped in
\* <font backColor="#ffd54f"><b>..</b></font>
_words_to_html(txt, oth) ==
    IF txt = <<>> THEN [placeholder |-> TRUE, parts |-> <<>>]
    ELSE LET words_text == Split(txt)
             words_other == Split(oth)
             different_indices == DifferentIndices(words_text, words_other)
         IN [placeholder |-> FALSE,
             parts |-> [n \in 1..Len(words_text) |->
                          [word |-> words_text[n],
                           highlighted |-> (n - 1) \in different_indices]]]

(***************************************************************************)
(* Arguments the specifications draw from.                                 *)
(***************************************************************************)
NormAlphabet == {"x", "e", ACUTE, EACUTE, SP, TAB, NBSP, LF, CR}
DigitsAlphabet == Punct \cup {SP, LF, "1", SUP2, "a"}
TextAlphabet == {"a", "b", SP}

\* the words of the counterpart, and the words that get inserted
OtherWords == {<<"a">>, <<"b">>}
TextWords == {<<"a">>, <<"b">>, <<"c">>}

\* " ".join(words)
RECURSIVE Join(_)
Join(words) ==
    IF words = <<>> THEN <<>>
    ELSE IF Len(words) = 1 THEN words[1]
    ELSE words[1] \o <<SP>> \o Join(Tail(words))

\* words with w inserted so that it becomes the word at 0-based index p
InsertAt(words, p, w) == Slice(words, 0, p) \o <<w>> \o Slice(words, p, Len(words))

\* words without the word at 0-based index p
RemoveAt(words, p) == Slice(words, 0, p) \o Slice(words, p + 1, Len(words))

\* lines as they reach the matchers: two spellings of one normal form, a
\* second content, and a whitespace-only line
Lines == {<<"a">>, <<SP, "a">>, <<"b">>, <<SP>>}

\* section keys are not validated: a negative key is processed like any other
SlideKeys == {-1, 2}

RECURSIVE TotalLines(_)
TotalLines(lines) ==
    IF DOMAIN lines = {} THEN 0
    ELSE LET k == CHOOSE k \in DOMAIN lines : TRUE
         IN Len(lines[k]) + TotalLines([l \in (DOMAIN lines) \ {k} |-> lines[l]])

\* the slide maps of a deck of at most n lines
Decks(n) ==
    UNION {{d \in [D -> Strings(Lines, n)] : TotalLines(d) <= n} : D \in SUBSET SlideKeys}

(***************************************************************************)
(* State of a caller that uses none of a group of functions.               *)
(***************************************************************************)
NoHelpers == s = <<>> /\ once = <<>> /\ twice = <<>> /\ is_digits = FALSE
NoWordDiff == text1 = <<>> /\ text2 = <<>> /\ result = <<>>
NoHtml == text = <<>> /\ other = <<>> /\ html = [placeholder |-> FALSE, parts |-> <<>>]
NoMatcher ==
    /\ original = <<>> /\ corrige = <<>>
    /\ original_lines = <<>> /\ corrige_lines = <<>>
    /\ diffs = <<>>

helper_vars == <<s, once, twice, is_digits>>
word_vars == <<text1, text2, result>>
html_vars == <<text, other, html>>
matcher_vars == <<original, corrige, original_lines, corrige_lines, diffs>>

(***************************************************************************)
(* The matchers: compute_diffs on slide maps, compute_diffs_sequential on  *)
(* flat lists (app.py picks one by file type).                             *)
(***************************************************************************)
InitSectioned ==
    /\ pc = "sectioned"
    /\ original_lines \in Decks(MaxSlideLines)
    /\ corrige_lines \in Decks(MaxSlideLines)
    /\ original = <<>> /\ corrige = <<>> /\ diffs = <<>>

InitFlat ==
    /\ pc = "flat"
    /\ original \in Strings(Lines, MaxLines)
    /\ corrige \in Strings(Lines, MaxLines)
    /\ original_lines = <<>> /\ corrige_lines = <<>> /\ diffs = <<>>

Init == (InitSectioned \/ InitFlat) /\ NoHelpers /\ NoWordDiff /\ NoHtml

ComputeDiffs ==
    /\ pc = "sectioned"
    /\ diffs' = compute_diffs(original_lines, corrige_lines)
    /\ pc' = "compared"
    /\ UNCHANGED <<original, corrige, original_lines, corrige_lines>>
    /\ UNCHANGED <<helper_vars, word_vars, html_vars>>

ComputeDiffsSequential ==
    /\ pc = "flat"
    /\ diffs' = compute_diffs_sequential(original, corrige)
    /\ pc' = "compared_sequential"
    /\ UNCHANGED <<original, corrige, original_lines, corrige_lines>>
    /\ UNCHANGED <<helper_vars, word_vars, html_vars>>

Next == ComputeDiffs \/ ComputeDiffsSequential

Spec == Init /\ [][Next]_vars

(***************************************************************************)
(* normalize_whitespace applied once and then to its own result.           *)
(***************************************************************************)
InitNormalize ==
    /\ pc = "normalize"
    /\ s \in Strings(NormAlphabet, MaxStrLen)
    /\ once = <<>> /\ twice = <<>> /\ is_digits = FALSE
    /\ NoWordDiff /\ NoHtml /\ NoMatcher

Normalize ==
    /\ pc = "normalize"
    /\ once' = normalize_whitespace(s)
    /\ pc' = "normalized"
    /\ UNCHANGED <<s, twice, is_digits, word_vars, html_vars, matcher_vars>>

NormalizeAgain ==
    /\ pc = "normalized"
    /\ twice' = normalize_whitespace(once)
    /\ pc' = "renormalized"
    /\ UNCHANGED <<s, once, is_digits, word_vars, html_vars, matcher_vars>>

NextNormalize == Normalize \/ NormalizeAgain

SpecNormalize == InitNormalize /\ [][NextNormalize]_vars

(***************************************************************************)
(* is_digits_only.                                                         *)
(***************************************************************************)
InitDigits ==
    /\ pc = "digits"
    /\ s \in Strings(DigitsAlphabet, MaxDigitsLen)
    /\ once = <<>> /\ twice = <<>> /\ is_digits = FALSE
    /\ NoWordDiff /\ NoHtml /\ NoMatcher

IsDigitsOnly ==
    /\ pc = "digits"
    /\ is_digits' = is_digits_only(s)
    /\ pc' = "digits_done"
    /\ UNCHANGED <<s, once, twice, word_vars, html_vars, matcher_vars>>

NextDigits == IsDigitsOnly

SpecDigits == InitDigits /\ [][NextDigits]_vars

(***************************************************************************)
(* word_diff_pairs.                                                        *)
(***************************************************************************)
InitWordDiff ==
    /\ pc = "word_diff"
    /\ text1 \in Strings(TextAlphabet, MaxTextLen)
    /\ text2 \in Strings(TextAlphabet, MaxTextLen)
    /\ result = <<>>
    /\ NoHelpers /\ NoHtml /\ NoMatcher

WordDiffPairs ==
    /\ pc = "word_diff"
    /\ result' = word_diff_pairs(text1, text2)
    /\ pc' = "word_diff_done"
    /\ UNCHANGED <<text1, text2, helper_vars, html_vars, matcher_vars>>

NextWordDiff == WordDiffPairs

SpecWordDiff == InitWordDiff /\ [][NextWordDiff]_vars

(***************************************************************************)
(* _words_to_html on a text that is its counterpart with one word more,    *)
(* and on the empty text.                                                  *)
(***************************************************************************)
InitHtml ==
    /\ pc = "html"
    /\ \E words \in Strings(OtherWords, MaxWords) :
          /\ other = Join(words)
          /\ \/ text = <<>>
             \/ \E p \in 0..Len(words), w \in TextWords :
                   text = Join(InsertAt(words, p, w))
    /\ html = [placeholder |-> FALSE, parts |-> <<>>]
    /\ NoHelpers /\ NoWordDiff /\ NoMatcher

WordsToHtml ==
    /\ pc = "html"
    /\ html' = _words_to_html(text, other)
    /\ pc' = "html_done"
    /\ UNCHANGED <<text, other, helper_vars, word_vars, matcher_vars>>

NextHtml == WordsToHtml

SpecHtml == InitHtml /\ [][NextHtml]_vars

(***************************************************************************)
(* Properties.                                                             *)
(***************************************************************************)
\* the elements of a sequence
Range(seq) == {seq[i] : i \in 1..Len(seq)}

\* number of occurrences of x in a sequence
Count(seq, x) == Cardinality({i \in 1..Len(seq) : seq[i] = x})

\* same elements with the same multiplicities, in any order
IsPermutation(xs, ys) ==
    /\ Len(xs) = Len(ys)
    /\ \A x \in Range(xs) \cup Range(ys) : Count(xs, x) = Count(ys, x)

\* the LineDiffs of one section key, in output order
DiffsOf(slide_no) == SelectSeq(diffs, LAMBDA d : d.slide_no = slide_no)

AllSlides == (DOMAIN original_lines) \cup (DOMAIN corrige_lines)

\* C1: no LineDiff returned by either matcher has both its original and its
\* revised field empty after trimming whitespace.
C1_NoEmptyLineDiff ==
    pc \in {"compared", "compared_sequential"} =>
        \A n \in 1..Len(diffs) :
            Strip(diffs[n].original) # <<>> \/ Strip(diffs[n].corrige) # <<>>

\* C2: compute_diffs reports no LineDiff for a section whose revised lines
\* are a permutation of its original lines.
C2_PermutationNoDiffs ==
    pc = "compared" =>
        \A k \in AllSlides :
            IsPermutation(Get(original_lines, k), Get(corrige_lines, k))
                => DiffsOf(k) = <<>>

\* C2 witness: compute_diffs has returned for a section whose lines were
\* reordered.
C2_Witness ==
    /\ pc = "compared"
    /\ \E k \in AllSlides :
          /\ IsPermutation(Get(original_lines, k), Get(corrige_lines, k))
          /\ Get(original_lines, k) # Get(corrige_lines, k)

\* the revised section c is the original section o with the line at
\* position p replaced by a non-blank text whose normal form occurs nowhere
\* in o
OneLineReplaced(o, c, p) ==
    /\ Len(c) = Len(o)
    /\ p \in 1..Len(o)
    /\ \A q \in 1..Len(o) : q # p => c[q] = o[q]
    /\ Strip(c[p]) # <<>>
    /\ normalize_whitespace(c[p]) \notin Range(Norms(o))

\* the last position of o whose line has the normal form of the line at p
LastLike(o, p) ==
    CHOOSE q \in 1..Len(o) :
        /\ Norms(o)[q] = Norms(o)[p]
        /\ \A r \in 1..Len(o) : Norms(o)[r] = Norms(o)[p] => r <= q

\* C3 as stated: when one line of a section is replaced by new non-blank
\* content, compute_diffs reports for that section exactly one LineDiff, from
\* the replaced line to the new line, both as given.
C3_ReplacedLineReported ==
    pc = "compared" =>
        \A k \in AllSlides :
            LET o == Get(original_lines, k)
                c == Get(corrige_lines, k)
            IN \A p \in 1..Len(o) :
                  OneLineReplaced(o, c, p)
                      => DiffsOf(k) = <<LineDiff(k, o[p], c[p])>>

\* C3 amended: when one line of a section is replaced by new non-blank
\* content, compute_diffs reports for that section exactly one LineDiff; its
\* revised field is the new line as given and its original field is, as
\* given, the last original line that has the normal form of the replaced
\* line.
C3_LastLikeLineReported ==
    pc = "compared" =>
        \A k \in AllSlides :
            LET o == Get(original_lines, k)
                c == Get(corrige_lines, k)
            IN \A p \in 1..Len(o) :
                  OneLineReplaced(o, c, p)
                      => DiffsOf(k) = <<LineDiff(k, o[LastLike(o, p)], c[p])>>

\* C3 witness: compute_diffs has returned for a section with one line
\* replaced, where a later line is another spelling of the replaced line.
C3_Witness ==
    /\ pc = "compared"
    /\ \E k \in AllSlides :
          LET o == Get(original_lines, k)
              c == Get(corrige_lines, k)
          IN \E p \in 1..Len(o) :
                /\ OneLineReplaced(o, c, p)
                /\ o[LastLike(o, p)] # o[p]

\* C4: compute_diffs_sequential reports at least one LineDiff whenever the
\* normal forms of the two line sequences are not element by element the
\* same.
C4_SequentialOrderSensitive ==
    (pc = "compared_sequential" /\ Norms(original) # Norms(corrige))
        => Len(diffs) >= 1

\* C4 witness: compute_diffs_sequential has returned for a revised sequence
\* that is a reordering of the three original lines.
C4_Witness ==
    /\ pc = "compared_sequential"
    /\ Len(original) = 3
    /\ IsPermutation(Norms(original), Norms(corrige))
    /\ Norms(original) # Norms(corrige)

\* the revised sequence is the original one followed by k >= 1 non-blank
\* lines
Appended(k) ==
    /\ k >= 1
    /\ Len(corrige) = Len(original) + k
    /\ SubSeq(corrige, 1, Len(original)) = original
    /\ \A i \in 1..k : Strip(corrige[Len(original) + i]) # <<>>

\* C5: when the revised sequence is the original one followed by k >= 1
\* non-blank lines, compute_diffs_sequential returns exactly k LineDiffs, one
\* per appended line in order, with an empty original field, the appended
\* line as revised field and section key 0.
C5_AppendedLinesInserted ==
    pc = "compared_sequential" =>
        \A k \in 1..Len(corrige) :
            Appended(k) =>
                diffs = [i \in 1..k |->
                            LineDiff(0, <<>>, corrige[Len(original) + i])]

\* C5 witness: compute_diffs_sequential has returned for a non-empty original
\* followed by two appended lines.
C5_Witness ==
    /\ pc = "compared_sequential"
    /\ Len(original) >= 1
    /\ Appended(2)

\* C6: word_diff_pairs(text, other) returns exactly one pair per word of
\* text, in order and carrying that word, whatever other is.
C6_OnePairPerWord ==
    pc = "word_diff_done" =>
        /\ Len(result) = Len(Split(text1))
        /\ \A i \in 1..Len(result) : result[i][1] = Split(text1)[i]

\* C7: the i-th pair of word_diff_pairs(text, other) is flagged exactly when
\* the i-th words differ, for i below both word counts, and every word of
\* text at or beyond the word count of other is flagged.
C7_PositionalFlags ==
    pc = "word_diff_done" =>
        LET words1 == Split(text1)
            words2 == Split(text2)
        IN \A i \in 1..Len(words1) :
              result[i][2] = (IF i <= Len(words2) THEN words1[i] # words2[i]
                              ELSE TRUE)

\* C7 witness: word_diff_pairs has returned for a text with more words than
\* its counterpart, with an equal and hence unflagged word among the common
\* positions.
C7_Witness ==
    /\ pc = "word_diff_done"
    /\ Len(Split(text1)) > Len(Split(text2))
    /\ \E i \in 1..Len(Split(text2)) : ~result[i][2]

\* the 0-based indices of the words _words_to_html highlights
Highlighted == {n - 1 : n \in {m \in 1..Len(html.parts) : html.parts[m].highlighted}}

\* C8: whenever text is other with one extra word inserted,
\* _words_to_html(text, other) highlights the inserted word and no other
\* word of text.
C8_InsertionLocalized ==
    pc = "html_done" =>
        LET words_text == Split(text)
            words_other == Split(other)
            inserted == {p \in 0..(Len(words_text) - 1) :
                            RemoveAt(words_text, p) = words_other}
        IN inserted # {} => \E p \in inserted : Highlighted = {p}

\* C9: normalize_whitespace applied to its own result returns that result.
C9_NormalizeIdempotent == pc = "renormalized" => twice = once

\* C9 witness: normalize_whitespace has been applied twice to a text that
\* the first application changed into a non-empty text.
C9_Witness == pc = "renormalized" /\ once # s /\ once # <<>>

\* what is left of a text after removing all whitespace and the punctuation
\* . , : ; ( ) [ ] -
Remainder(str) == SelectSeq(str, LAMBDA c : c \notin Space \cup Punct)

\* C10 as stated: is_digits_only is true exactly when the remainder is
\* non-empty and consists of decimal digits only.
C10_DecimalDigitsOnly ==
    pc = "digits_done" =>
        (is_digits <=> /\ Remainder(s) # <<>>
                       /\ \A i \in 1..Len(Remainder(s)) : IsDecimal(Remainder(s)[i]))

\* C10 amended: is_digits_only is true exactly when the remainder is
\* non-empty and consists only of characters str.isdigit accepts, which are
\* the decimal digits and the other digit characters such as the superscript
\* two.
C10_DigitCharactersOnly ==
    pc = "digits_done" =>
        (is_digits <=> /\ Remainder(s) # <<>>
                       /\ \A i \in 1..Len(Remainder(s)) : IsDigitChar(Remainder(s)[i]))

\* C10 witness: is_digits_only has returned true for a text from which
\* punctuation or whitespace had to be removed.
C10_Witness ==
    pc = "digits_done" /\ is_digits /\ Len(Remainder(s)) < Len(s)

\* xs can be obtained from ys by deleting elements
RECURSIVE IsSubsequence(_, _)
IsSubsequence(xs, ys) ==
    IF xs = <<>> THEN TRUE
    ELSE IF ys = <<>> THEN FALSE
    ELSE IF Head(xs) = Head(ys) THEN IsSubsequence(Tail(xs), Tail(ys))
    ELSE IsSubsequence(xs, Tail(ys))

\* the non-empty original fields and the non-empty revised fields of a list
\* of LineDiffs, in list order
OriginalFields(ds) ==
    LET kept == SelectSeq(ds, LAMBDA d : d.original # <<>>)
    IN [n \in 1..Len(kept) |-> kept[n].original]

CorrigeFields(ds) ==
    LET kept == SelectSeq(ds, LAMBDA d : d.corrige # <<>>)
    IN [n \in 1..Len(kept) |-> kept[n].corrige]

\* C11: the section keys of the LineDiffs returned by compute_diffs are
\* non-decreasing along the list and come from the union of the two input
\* key sets; within one key the non-empty original fields follow the order of
\* the original lines and the non-empty revised fields the order of the
\* revised lines.
C11_OutputOrdering ==
    pc = "compared" =>
        /\ \A n \in 1..Len(diffs) : diffs[n].slide_no \in AllSlides
        /\ \A n \in 1..(Len(diffs) - 1) : diffs[n].slide_no <= diffs[n + 1].slide_no
        /\ \A k \in AllSlides :
              /\ IsSubsequence(OriginalFields(DiffsOf(k)), Get(original_lines, k))
              /\ IsSubsequence(CorrigeFields(DiffsOf(k)), Get(corrige_lines, k))

\* C11 witness: compute_diffs has returned LineDiffs of a negative key
\* followed by LineDiffs of a positive key, one of the keys being present on
\* one side only.
C11_Witness ==
    /\ pc = "compared"
    /\ Len(diffs) = 2
    /\ diffs[1].slide_no < 0
    /\ diffs[2].slide_no > 0
    /\ DOMAIN original_lines # DOMAIN corrige_lines

\* C12: compute_diffs_sequential returns an empty list for two line
\* sequences of equal length whose lines have, position by position, the same
\* normal form.
C12_EqualNormalFormsNoDiffs ==
    (/\ pc = "compared_sequential"
     /\ Len(original) = Len(corrige)
     /\ \A i \in 1..Len(original) :
           normalize_whitespace(original[i]) = normalize_whitespace(corrige[i]))
        => diffs = <<>>

\* C12 witness: compute_diffs_sequential has returned for two sequences of
\* three lines that are spelled differently and have the same normal forms.
C12_Witness ==
    /\ pc = "compared_sequential"
    /\ Len(original) = 3
    /\ original # corrige
    /\ Norms(original) = Norms(corrige)

\* the 0-based indices at which the list of normal forms holds v
Occurrences(norms, v) == {i \in 0..(Len(norms) - 1) : At(norms, i) = v}

\* the normal forms of the lines, as a list
NormList(lines) == Norms(lines) \o <<>>

\* the revised occurrences of v that a first pass with result m left
\* unmatched, cn being the revised normal forms
UnmatchedCorr(cn, m, v) == Occurrences(cn, v) \ m.matched_corr

\* with fewer original than revised occurrences of v, the latter being at
\* least 2, the first pass leaves exactly the surplus of last revised
\* occurrences unmatched
LastLeftUnmatched(on, cn, m, v) ==
    LET occ == Occurrences(cn, v)
        count == Cardinality(Occurrences(on, v))
        left == UnmatchedCorr(cn, m, v)
    IN (Cardinality(occ) >= 2 /\ Cardinality(occ) > count) =>
          /\ Cardinality(left) = Cardinality(occ) - count
          /\ \A i \in occ \ left, j \in left : i < j

\* in the same case, the revised fields with normal form v reported for
\* section k are the unmatched revised occurrences of v, in order
UnmatchedReported(k, on, cn, m, v) ==
    LET c == Get(corrige_lines, k)
        occ == Occurrences(cn, v)
    IN (Cardinality(occ) >= 2 /\ Cardinality(occ) > Cardinality(Occurrences(on, v))) =>
          SelectSeq(CorrigeFields(DiffsOf(k)),
                    LAMBDA line : normalize_whitespace(line) = v)
              = Keep(c, 0, (0..(Len(c) - 1)) \ UnmatchedCorr(cn, m, v))

\* no revised index is matched to two original lines: the first pass marks
\* as many original lines as revised indices
MatchedOnce(m) == Cardinality(MatchedOrig(m)) = Cardinality(m.matched_corr)

\* C13 as stated: with m original and n > m revised lines of one normal form
\* in a section, the revised lines left unmatched and reported are exactly
\* the last n - m occurrences, and no revised index is matched twice.
C13_GreedyLeftmostReported ==
    pc = "compared" =>
        \A k \in AllSlides :
            LET on == NormList(Get(original_lines, k))
                cn == NormList(Get(corrige_lines, k))
                m == MatchPass(on, cn)
            IN /\ MatchedOnce(m)
               /\ \A v \in Range(cn) :
                     /\ LastLeftUnmatched(on, cn, m, v)
                     /\ UnmatchedReported(k, on, cn, m, v)

\* C13 amended: with m original and n > m revised lines of one normal form
\* in a section, the revised lines left unmatched are exactly the last n - m
\* occurrences, they are the revised lines of that normal form that are
\* reported when the normal form is not empty, and no revised index is
\* matched twice.
C13_GreedyLeftmost ==
    pc = "compared" =>
        \A k \in AllSlides :
            LET on == NormList(Get(original_lines, k))
                cn == NormList(Get(corrige_lines, k))
                m == MatchPass(on, cn)
            IN /\ MatchedOnce(m)
               /\ \A v \in Range(cn) :
                     /\ LastLeftUnmatched(on, cn, m, v)
                     /\ v # <<>> => UnmatchedReported(k, on, cn, m, v)

\* C13 witness: compute_diffs has returned for a section with one original
\* line and two differently spelled revised lines of one non-empty normal
\* form.
C13_Witness ==
    /\ pc = "compared"
    /\ \E k \in AllSlides :
          \E v \in Range(Norms(Get(corrige_lines, k))) :
             /\ v # <<>>
             /\ Cardinality(Occurrences(Norms(Get(original_lines, k)), v)) = 1
             /\ Cardinality(Occurrences(Norms(Get(corrige_lines, k)), v)) = 2
             /\ Cardinality(Range(Get(corrige_lines, k))) = 2

\* no line of section k is empty or whitespace-only, on either side
NoBlankLines(k) ==
    /\ \A i \in 1..Len(Get(original_lines, k)) : Strip(Get(original_lines, k)[i]) # <<>>
    /\ \A i \in 1..Len(Get(corrige_lines, k)) : Strip(Get(corrige_lines, k)[i]) # <<>>

\* C14: after the first pass of compute_diffs the number of matched lines of
\* each normal form is, on both sides, the minimum of its two occurrence
\* counts, so no normal form occurs in both residuals; a section without
\* blank lines yields max(|unmatched original|, |unmatched revised|)
\* LineDiffs, and none exactly when its two sides are equal as multisets of
\* normal forms.
C14_MatchedIsMinimum ==
    pc = "compared" =>
        \A k \in AllSlides :
            LET on == NormList(Get(original_lines, k))
                cn == NormList(Get(corrige_lines, k))
                m == MatchPass(on, cn)
                unmatched_o == Keep(on, 0, MatchedOrig(m))
                unmatched_c == Keep(cn, 0, m.matched_corr)
            IN /\ \A v \in Range(on) \cup Range(cn) :
                     LET least == Min(Cardinality(Occurrences(on, v)),
                                      Cardinality(Occurrences(cn, v)))
                     IN /\ Cardinality(Occurrences(on, v) \cap MatchedOrig(m)) = least
                        /\ Cardinality(Occurrences(cn, v) \cap m.matched_corr) = least
               /\ Range(unmatched_o) \cap Range(unmatched_c) = {}
               /\ NoBlankLines(k) =>
                     /\ Len(DiffsOf(k)) = Max(Len(unmatched_o), Len(unmatched_c))
                     /\ DiffsOf(k) = <<>> <=> IsPermutation(on, cn)

\* C14 witness: compute_diffs has returned one LineDiff for a section without
\* blank lines in which the first pass matched a line and left a line
\* unmatched on each side.
C14_Witness ==
    /\ pc = "compared"
    /\ \E k \in AllSlides :
          LET m == MatchPass(Norms(Get(original_lines, k)),
                             Norms(Get(corrige_lines, k)))
          IN /\ NoBlankLines(k)
             /\ m.matched_corr # {}
             /\ Cardinality(MatchedOrig(m)) < Len(Get(original_lines, k))
             /\ Cardinality(m.matched_corr) < Len(Get(corrige_lines, k))
             /\ Len(DiffsOf(k)) = 1

====
